---------------------------- MODULE Spec2Model ----------------------------
(***************************************************************************)
(* A model of centerline/converters.py: get_ogr_driver (the driver         *)
(* resolver) and create_centerlines (the conversion orchestrator).         *)
(*                                                                         *)
(* Text (paths, extensions, driver metadata) is a sequence of one-letter   *)
(* strings, so that slicing, equality and substring search are computed    *)
(* as Python computes them.                                                *)
(***************************************************************************)
EXTENDS Naturals, Sequences, FiniteSets, TLC

VARIABLES
    registry,   \* the OGR driver registry: ogr.GetDriver(0 .. GetDriverCount()-1)
    last_call,  \* get_ogr_driver's latest call: <<>> or <<[filepath, outcome]>>
    prev_call,  \* the call before it, likewise
    src,        \* the Source Dataset at path src: schema, crs, encoding, features
    dst,        \* the destination path
    density,    \* the density option
    pc,         \* where create_centerlines is
    source_file,        \* the source handle: "unopened", "open" or "closed"
    schema,             \* the local schema (lines 54-55)
    driver,             \* what get_ogr_driver gave (line 56)
    destination_file,   \* the destination dataset and its handle
    cursor,             \* the Features the iteration of line 65 has read
    record,             \* the Feature in hand: <<>> or <<Feature>>
    centerline_obj,     \* the Centerline of the Feature in hand: <<>> or <<obj>>
    warnings,           \* what logging.warning was given, in order
    raised,             \* the exception create_centerlines ended with, if any
    outcomes            \* history: how the conversion of each Feature read went

driver_vars == <<last_call, prev_call>>
run_vars == <<src, dst, density, pc, source_file, schema, driver,
              destination_file, cursor, record, centerline_obj, warnings,
              raised, outcomes>>
vars == <<registry, driver_vars, run_vars>>

(***************************************************************************)
(* Bounds of the model.                                                    *)
(***************************************************************************)
MaxPathLen == 3
MaxDrivers == 2
MaxFeatures == 2

(***************************************************************************)
(* Text.                                                                   *)
(***************************************************************************)
PathChars == {"a", "A", ".", "/"}

RECURSIVE Texts(_, _)
Texts(chars, n) ==
    IF n = 0 THEN {<<>>}
    ELSE LET shorter == Texts(chars, n - 1)
         IN  shorter \cup {Append(t, c) : t \in shorter, c \in chars}

Paths == Texts(PathChars, MaxPathLen)

\* str.rfind(c), shifted by one: the 1-based place of the last c in p, 0 if none
RFind(p, c) ==
    LET at == {k \in 1..Len(p) : p[k] = c}
    IN  IF at = {} THEN 0 ELSE CHOOSE k \in at : \A j \in at : j <= k

\* p[from:], with from a 1-based place
Slice(p, from) == SubSeq(p, from, Len(p))

\* os.path.splitext(p): <<root, ext>>. The extension starts at the last dot of
\* the last path component, unless only dots precede it in that component.
splitext(p) ==
    LET sepIndex == RFind(p, "/")
        dotIndex == RFind(p, ".")
    IN  IF /\ dotIndex > sepIndex
           /\ \E k \in (sepIndex + 1)..(dotIndex - 1) : p[k] # "."
        THEN <<SubSeq(p, 1, dotIndex - 1), Slice(p, dotIndex)>>
        ELSE <<p, <<>>>>

\* file_extension[1:]
FileExtension(filepath) == Slice(splitext(filepath)[2], 2)

\* a containment test that an empty s never passes
StrInNonEmpty(s, t) ==
    /\ s # <<>>
    /\ \E i \in 0..Len(t) :
          /\ i + Len(s) <= Len(t)
          /\ SubSeq(t, i + 1, i + Len(s)) = s

\* Python's `s in t` on str: s occurs in t as a contiguous run
StrIn(s, t) ==
    \E i \in 0..Len(t) :
        /\ i + Len(s) <= Len(t)
        /\ SubSeq(t, i + 1, i + Len(s)) = s

(***************************************************************************)
(* The driver registry.  A driver has a name and two metadata items.  An   *)
(* item is <<text>> when set and <<>> when not (GetMetadataItem returns    *)
(* None).                                                                  *)
(***************************************************************************)
DrvShape == [name |-> "ESRI Shapefile",
             DMD_EXTENSION  |-> << <<"a">> >>,
             DMD_EXTENSIONS |-> <<>>]
DrvMulti == [name |-> "GPKG",
             DMD_EXTENSION  |-> <<>>,
             DMD_EXTENSIONS |-> << <<"a", "A", " ", "A">> >>]
DrvPlain == [name |-> "Memory",
             DMD_EXTENSION  |-> <<>>,
             DMD_EXTENSIONS |-> <<>>]

Drivers == {DrvShape, DrvMulti, DrvPlain}

RECURSIVE Registries(_)
Registries(n) ==
    IF n = 0 THEN {<<>>}
    ELSE LET shorter == Registries(n - 1)
         IN  shorter \cup {Append(r, d) : r \in shorter,
                                          d \in Drivers}

\* a registry lists each driver once
IsRegistry(r) == \A i, j \in 1..Len(r) : r[i] = r[j] => i = j

AllRegistries == {r \in Registries(MaxDrivers) : IsRegistry(r)}

\* GetMetadataItem(item) or "": None and "" both give ""
OrEmpty(item) == IF item = <<>> THEN <<>> ELSE item[1]

\* the test of line 117
DriverMatches(EXTENSION, drv) ==
    LET driver_extension  == OrEmpty(drv.DMD_EXTENSION)
        driver_extensions == OrEmpty(drv.DMD_EXTENSIONS)
    IN  EXTENSION = driver_extension \/ StrIn(EXTENSION, driver_extensions)

\* what a call gives its caller: a driver returned, or an exception raised
Returned(idx, drv) ==
    [kind |-> "return", idx |-> idx, driver |-> drv.name,
     error |-> "", msg |-> <<>>]
Raised(error, msg) ==
    [kind |-> "raise", idx |-> 0, driver |-> "",
     error |-> error, msg |-> msg]

\* a resolver that keeps scanning and answers with the last match
DriverLoopLastMatch(idx, EXTENSION, reg) ==
    LET hits == {i \in idx..(Len(reg) - 1) : DriverMatches(EXTENSION, reg[i + 1])}
    IN  IF hits = {}
        THEN Raised("InvalidInputTypeError", EXTENSION)
        ELSE LET last == CHOOSE i \in hits : \A j \in hits : j <= i
             IN  Returned(last, reg[last + 1])

\* the loop of lines 112-124, from idx on: ogr.GetDriver(idx) is registry[idx + 1]
RECURSIVE DriverLoop(_, _, _)
DriverLoop(idx, EXTENSION, reg) ==
    IF idx >= Len(reg)
    THEN Raised("InvalidInputTypeError", EXTENSION)
    ELSE IF DriverMatches(EXTENSION, reg[idx + 1])
         THEN Returned(idx, reg[idx + 1])
         ELSE DriverLoop(idx + 1, EXTENSION, reg)

\* the registry after a call: get_ogr_driver only reads it
RegistryAfterLookup(reg) == reg

\* a resolver that matches the whole path instead of its extension
get_ogr_driver_whole_path(filepath, reg) == DriverLoop(0, filepath, reg)

get_ogr_driver(filepath, reg) == DriverLoop(0, FileExtension(filepath), reg)

(***************************************************************************)
(* The Source Dataset.  A schema is its geometry type and the ordered      *)
(* list of its fields, <<name, type>>; every Feature carries exactly the   *)
(* schema's fields as its properties.                                      *)
(***************************************************************************)
Values == {1, 2}

Geometries == {[type |-> "Polygon", size |-> 1],
               [type |-> "Polygon", size |-> 2],
               [type |-> "Point",   size |-> 1]}

SourceHeaders ==
    {[schema   |-> [geometry   |-> "Polygon",
                    properties |-> << <<"id", "int">> >>],
      crs      |-> "EPSG:4326",
      encoding |-> "utf-8"],
     [schema   |-> [geometry   |-> "Polygon",
                    properties |-> << <<"id", "int">>, <<"length", "float">> >>],
      crs      |-> "EPSG:3857",
      encoding |-> "latin-1"],
     [schema   |-> [geometry   |-> "Unknown",
                    properties |-> << <<"interpolation_dist", "float">>,
                                      <<"id", "int">> >>],
      crs      |-> "EPSG:4326",
      encoding |-> "utf-8"]}

FieldNames(sch) == {sch.properties[k][1] : k \in 1..Len(sch.properties)}

FeaturesOf(sch) ==
    {[geometry |-> g, properties |-> props] :
        g \in Geometries, props \in [FieldNames(sch) -> Values]}

RECURSIVE SeqsUpTo(_, _)
SeqsUpTo(S, n) ==
    IF n = 0 THEN {<<>>}
    ELSE LET shorter == SeqsUpTo(S, n - 1)
         IN  shorter \cup {Append(q, x) : q \in shorter, x \in S}

Sources ==
    UNION {{[schema |-> h.schema, crs |-> h.crs, encoding |-> h.encoding,
             features |-> fs] : fs \in SeqsUpTo(FeaturesOf(h.schema), MaxFeatures)}
           : h \in SourceHeaders}

\* the registry of a run, and the destination paths tried
OgrRegistry == <<DrvShape, DrvMulti>>
DstPaths == {<<"o", ".", "a">>, <<"o", ".", "A">>, <<"o", ".", "a", "a">>}
Densities == {1, 2}

(***************************************************************************)
(* Exceptions, and the Centerline class.                                   *)
(***************************************************************************)
NoException == [type |-> "", msg |-> <<>>]
Exception(type, msg) == [type |-> type, msg |-> msg]

\* the exception a get_ogr_driver outcome raises
ExceptionOf(outcome) == Exception(outcome.error, outcome.msg)

\* what a Centerline adds of its own; "length" may be the name of a field too
ComputedAttributes(input_geom) == [k \in {"length"} |-> input_geom.size + 2]

\* the attributes of a Centerline made from attributes: those it was given
\* and those it computed; under a shared name either value may be kept
CenterlineAttributes(input_geom, attributes) ==
    LET computed == ComputedAttributes(input_geom)
        shared   == DOMAIN computed \cap DOMAIN attributes
        names    == DOMAIN computed \cup DOMAIN attributes
    IN  {[k \in names |->
             IF k \in shared
             THEN (IF k \in kept THEN attributes[k] ELSE computed[k])
             ELSE IF k \in DOMAIN attributes THEN attributes[k]
             ELSE computed[k]] : kept \in {{}, shared}}

\* Centerline(input_geom, interpolation_dist, **attributes): what it may do
Centerline(input_geom, interpolation_dist, attributes) ==
    IF input_geom.type \notin {"Polygon", "MultiPolygon"}
    THEN {[kind |-> "InvalidInputTypeError", obj |-> <<>>]}
    ELSE IF input_geom.size < interpolation_dist
    THEN {[kind |-> "TooFewRidgesError", obj |-> <<>>]}
    ELSE {[kind |-> "ok",
           obj  |-> <<[geometry |-> [type |-> "MultiLineString",
                                     size |-> input_geom.size],
                       attrs    |-> a]>>] :
            a \in CenterlineAttributes(input_geom, attributes)}

\* the names the call of lines 71-75 passes by keyword itself
CallKeywords == {"input_geom", "interpolation_dist"}

\* a ** expansion that repeats one of them is a TypeError at the call
KeywordCollision(attributes) == DOMAIN attributes \cap CallKeywords # {}

\* an except clause that names one of the two errors only
HandledInvalidInputOnly == {"InvalidInputTypeError"}

\* the exceptions the except clause of line 76 handles
Handled == {"InvalidInputTypeError", "TooFewRidgesError"}

(***************************************************************************)
(* create_centerlines.                                                     *)
(***************************************************************************)
NoOutcome == [kind |-> "none", idx |-> 0, driver |-> "", error |-> "", msg |-> <<>>]
NoSchema  == [geometry |-> "", properties |-> <<>>]
NoFile    == [state |-> "unopened", driver |-> "", schema |-> NoSchema,
              crs |-> "", encoding |-> "", records |-> <<>>]

Init ==
    /\ registry = OgrRegistry
    /\ last_call = <<>>
    /\ prev_call = <<>>
    /\ src \in Sources
    /\ dst \in DstPaths
    /\ density \in Densities
    /\ pc = "start"
    /\ source_file = "unopened"
    /\ schema = NoSchema
    /\ driver = NoOutcome
    /\ destination_file = NoFile
    /\ cursor = 0
    /\ record = <<>>
    /\ centerline_obj = <<>>
    /\ warnings = <<>>
    /\ raised = NoException
    /\ outcomes = <<>>

\* a block that leaves its handle as it is
ExitWithoutClose(handle) == handle

\* leaving a `with fiona.open(...)` block closes the handle it opened
ExitWith(handle) == IF handle = "open" THEN "closed" ELSE handle

\* leaving both with blocks, by return or by an exception
Unwind ==
    /\ source_file' = ExitWith(source_file)
    /\ destination_file' =
           [destination_file EXCEPT !.state = ExitWith(destination_file.state)]

\* an exception that leaves wrapped in another
PropagateWrapped(exception) ==
    /\ raised' = Exception("RuntimeError", exception.msg)
    /\ pc' = "raised"
    /\ Unwind

\* an exception that takes the records written so far with it
PropagateDiscarding(exception) ==
    /\ raised' = exception
    /\ pc' = "raised"
    /\ source_file' = ExitWith(source_file)
    /\ destination_file' =
           [destination_file EXCEPT !.state = ExitWith(destination_file.state),
                                    !.records = <<>>]

\* an exception no except clause handles leaves create_centerlines
Propagate(exception) ==
    /\ raised' = exception
    /\ pc' = "raised"
    /\ Unwind

\* a schema built anew, without the source's fields
DerivedSchemaGeometryOnly(source_schema) ==
    [geometry |-> "MultiLineString", properties |-> <<>>]

\* lines 54-55: schema = source_file.schema.copy(); schema.update(geometry)
DerivedSchema(source_schema) ==
    [source_schema EXCEPT !.geometry = "MultiLineString"]

\* line 53
OpenSource ==
    /\ pc = "start"
    /\ source_file' = "open"
    /\ pc' = "source_open"
    /\ UNCHANGED <<registry, driver_vars, src, dst, density, schema, driver,
                   destination_file, cursor, record, centerline_obj, warnings,
                   raised, outcomes>>

\* line 53, fiona failing to open the source
OpenSourceFails ==
    /\ pc = "start"
    /\ Propagate(Exception("DriverError", <<>>))
    /\ UNCHANGED <<registry, driver_vars, src, dst, density, schema, driver,
                   cursor, record, centerline_obj, warnings, outcomes>>

\* lines 54-56
ResolveDriver ==
    /\ pc = "source_open"
    /\ schema' = DerivedSchema(src.schema)
    /\ driver' = get_ogr_driver(dst, registry)
    /\ registry' = RegistryAfterLookup(registry)
    /\ last_call' = <<[filepath |-> dst, outcome |-> driver']>>
    /\ prev_call' = last_call
    /\ IF driver'.kind = "raise"
       THEN Propagate(ExceptionOf(driver'))
       ELSE /\ pc' = "resolved"
            /\ UNCHANGED <<source_file, destination_file, raised>>
    /\ UNCHANGED <<src, dst, density, cursor, record,
                   centerline_obj, warnings, outcomes>>

\* a destination opened without the source's crs and encoding
OpenDestinationDefaults ==
    /\ pc = "resolved"
    /\ destination_file' = [state    |-> "open",
                            driver   |-> driver.driver,
                            schema   |-> schema,
                            crs      |-> "",
                            encoding |-> "utf-8",
                            records  |-> <<>>]
    /\ pc' = "iterate"
    /\ UNCHANGED <<registry, driver_vars, src, dst, density, source_file,
                   schema, driver, cursor, record, centerline_obj, warnings,
                   raised, outcomes>>

\* lines 57-64
OpenDestination ==
    /\ pc = "resolved"
    /\ destination_file' = [state    |-> "open",
                            driver   |-> driver.driver,
                            schema   |-> schema,
                            crs      |-> src.crs,
                            encoding |-> src.encoding,
                            records  |-> <<>>]
    /\ pc' = "iterate"
    /\ UNCHANGED <<registry, driver_vars, src, dst, density, source_file,
                   schema, driver, cursor, record, centerline_obj, warnings,
                   raised, outcomes>>

\* lines 57-64, fiona failing to open the destination
OpenDestinationFails ==
    /\ pc = "resolved"
    /\ Propagate(Exception("DriverError", <<>>))
    /\ UNCHANGED <<registry, driver_vars, src, dst, density, schema, driver,
                   cursor, record, centerline_obj, warnings, outcomes>>
\* line 65: the iteration hands over the next Feature
NextRecord ==
    /\ pc = "iterate"
    /\ cursor < Len(src.features)
    /\ record' = <<src.features[cursor + 1]>>
    /\ cursor' = cursor + 1
    /\ pc' = "convert"
    /\ UNCHANGED <<registry, driver_vars, src, dst, density, source_file,
                   schema, driver, destination_file, centerline_obj, warnings,
                   raised, outcomes>>

\* line 65, fiona failing to read the next Feature
ReadFails ==
    /\ pc = "iterate"
    /\ cursor < Len(src.features)
    /\ Propagate(Exception("DriverError", <<>>))
    /\ UNCHANGED <<registry, driver_vars, src, dst, density, schema, driver,
                   cursor, record, centerline_obj, warnings, outcomes>>

\* line 65 with the source exhausted, then line 91
Return ==
    /\ pc = "iterate"
    /\ cursor = Len(src.features)
    /\ Unwind
    /\ pc' = "done"
    /\ UNCHANGED <<registry, driver_vars, src, dst, density, schema, driver,
                   cursor, record, centerline_obj, warnings, raised, outcomes>>

\* the try body of lines 71-75 on a Feature: the outcomes it may have
TryCenterline(feature, interpolation_dist) ==
    IF KeywordCollision(feature.properties)
    THEN {[kind |-> "TypeError", obj |-> <<>>]}
    ELSE Centerline(feature.geometry, interpolation_dist, feature.properties)

\* lines 66-78 when the try body raises: a handled error is logged and the
\* loop continues, any other leaves create_centerlines
ConvertRaises ==
    /\ pc = "convert"
    /\ \E o \in TryCenterline(record[1], density) :
          /\ o.kind # "ok"
          /\ outcomes' = Append(outcomes, o)
          /\ IF o.kind \in Handled
             THEN /\ warnings' = Append(warnings, Exception(o.kind, <<>>))
                  /\ pc' = "iterate"
                  /\ UNCHANGED <<source_file, destination_file, raised>>
             ELSE /\ Propagate(Exception(o.kind, <<>>))
                  /\ UNCHANGED warnings
    /\ UNCHANGED <<registry, driver_vars, src, dst, density, schema, driver,
                   cursor, record, centerline_obj>>

\* lines 66-78 when Centerline returns
ConvertSucceeds ==
    /\ pc = "convert"
    /\ \E o \in TryCenterline(record[1], density) :
          /\ o.kind = "ok"
          /\ outcomes' = Append(outcomes, o)
          /\ centerline_obj' = o.obj
    /\ pc' = "write"
    /\ UNCHANGED <<registry, driver_vars, src, dst, density, source_file,
                   schema, driver, destination_file, cursor, record, warnings,
                   raised>>

\* properties that keep every attribute of the Centerline
OutputPropertiesUnfiltered(obj, attributes) == obj.attrs

\* properties that take the Feature's own values
OutputPropertiesOfFeature(obj, attributes) ==
    [k \in {n \in DOMAIN obj.attrs : n \in DOMAIN attributes} |-> attributes[k]]

\* lines 82-86: the Centerline's attributes whose names the Feature has
OutputProperties(obj, attributes) ==
    [k \in {n \in DOMAIN obj.attrs : n \in DOMAIN attributes} |-> obj.attrs[k]]

\* lines 80-87
CenterlineDict(obj, attributes) ==
    [geometry   |-> obj.geometry,
     properties |-> OutputProperties(obj, attributes)]

\* a record written goes before those written before
WriteRecordFirst(records, centerline_dict) == <<centerline_dict>> \o records

\* a record written twice
WriteRecordTwice(records, centerline_dict) ==
    Append(Append(records, centerline_dict), centerline_dict)

\* line 89: a record written goes after those written before
WriteRecord(records, centerline_dict) == Append(records, centerline_dict)

\* a write that resolves the driver again for each record
WriteResolvingAgain ==
    /\ pc = "write"
    /\ driver' = get_ogr_driver(dst, registry)
    /\ last_call' = <<[filepath |-> dst, outcome |-> driver']>>
    /\ prev_call' = last_call
    /\ destination_file' =
           [destination_file EXCEPT !.records =
               WriteRecord(@, CenterlineDict(centerline_obj[1],
                                             record[1].properties))]
    /\ pc' = "iterate"
    /\ UNCHANGED <<registry, src, dst, density, source_file,
                   schema, cursor, record, centerline_obj, warnings,
                   raised, outcomes>>

\* lines 80-89
Write ==
    /\ pc = "write"
    /\ destination_file' =
           [destination_file EXCEPT !.records =
               WriteRecord(@, CenterlineDict(centerline_obj[1],
                                             record[1].properties))]
    /\ pc' = "iterate"
    /\ UNCHANGED <<registry, driver_vars, src, dst, density, source_file,
                   schema, driver, cursor, record, centerline_obj, warnings,
                   raised, outcomes>>

\* line 89, fiona failing to write the record
WriteFails ==
    /\ pc = "write"
    /\ Propagate(Exception("DriverError", <<>>))
    /\ UNCHANGED <<registry, driver_vars, src, dst, density, schema, driver,
                   cursor, record, centerline_obj, warnings, outcomes>>

Next ==
    \/ OpenSource
    \/ OpenSourceFails
    \/ ResolveDriver
    \/ OpenDestination
    \/ OpenDestinationFails
    \/ NextRecord
    \/ ReadFails
    \/ Return
    \/ ConvertRaises
    \/ ConvertSucceeds
    \/ Write
    \/ WriteFails

Spec == Init /\ [][Next]_vars

(***************************************************************************)
(* The resolver on its own: over any registry, a call with any path, then  *)
(* a second call with the same path or with one that has the same text     *)
(* from its last dot on.                                                   *)
(***************************************************************************)
InitDriver ==
    /\ registry \in AllRegistries
    /\ last_call = <<>>
    /\ prev_call = <<>>
    /\ src = [schema |-> NoSchema, crs |-> "", encoding |-> "", features |-> <<>>]
    /\ dst = <<>>
    /\ density = 0
    /\ pc = "idle"
    /\ source_file = "unopened"
    /\ schema = NoSchema
    /\ driver = NoOutcome
    /\ destination_file = NoFile
    /\ cursor = 0
    /\ record = <<>>
    /\ centerline_obj = <<>>
    /\ warnings = <<>>
    /\ raised = NoException
    /\ outcomes = <<>>

CallGetOgrDriver(filepath) ==
    /\ last_call' = <<[filepath |-> filepath,
                       outcome  |-> get_ogr_driver(filepath, registry)]>>
    /\ prev_call' = last_call
    /\ registry' = RegistryAfterLookup(registry)
    /\ UNCHANGED run_vars

\* the text of p from its last dot on, when that dot is in the last component
HasDottedTail(p) == RFind(p, ".") > RFind(p, "/")
DottedTail(p) == Slice(p, RFind(p, "."))
SameDottedTail(p, q) ==
    /\ HasDottedTail(p)
    /\ HasDottedTail(q)
    /\ DottedTail(p) = DottedTail(q)

FirstCall ==
    /\ last_call = <<>>
    /\ \E filepath \in Paths : CallGetOgrDriver(filepath)

SecondCall ==
    /\ last_call # <<>>
    /\ prev_call = <<>>
    /\ \E filepath \in Paths :
          /\ \/ filepath = last_call[1].filepath
             \/ SameDottedTail(filepath, last_call[1].filepath)
          /\ CallGetOgrDriver(filepath)

NextDriver == FirstCall \/ SecondCall

SpecDriver == InitDriver /\ [][NextDriver]_vars

(***************************************************************************)
(* Claims about the resolver (checked under SpecDriver).                   *)
(***************************************************************************)
\* s occurs in t: t is some text, then s, then some text
OccursIn(s, t) ==
    \E i, j \in 0..Len(t) : i <= j /\ SubSeq(t, i + 1, j) = s

\* a field that is not set counts as the empty text
FieldText(field) == IF Len(field) = 0 THEN <<>> ELSE field[1]

\* the places of the registry whose driver the extension selects
Candidates(ext, reg) ==
    {i \in 1..Len(reg) : \/ FieldText(reg[i].DMD_EXTENSION) = ext
                          \/ OccursIn(ext, FieldText(reg[i].DMD_EXTENSIONS))}

\* C7: the resolver returns the driver with the lowest enumeration index among
\* those whose canonical extension equals the extension exactly (case included)
\* or whose alternate extensions contain it as a substring, a missing field
\* counting as the empty text; it returns no driver that is not among them.
C7_FirstMatchingDriver ==
    \A c \in {last_call[k] : k \in DOMAIN last_call} :
        LET ext  == FileExtension(c.filepath)
            cand == Candidates(ext, registry)
        IN  /\ cand # {} =>
                /\ c.outcome.kind = "return"
                /\ c.outcome.idx + 1 \in cand
                /\ \A i \in cand : c.outcome.idx + 1 <= i
                /\ c.outcome.driver = registry[c.outcome.idx + 1].name
            /\ c.outcome.kind = "return" => cand # {}

\* C7's case: two drivers match and the lower-indexed one was returned
C7_Witness ==
    /\ last_call # <<>>
    /\ last_call[1].outcome.kind = "return"
    /\ FileExtension(last_call[1].filepath) # <<>>
    /\ \E i \in Candidates(FileExtension(last_call[1].filepath), registry) :
          i > last_call[1].outcome.idx + 1

\* the two calls made, when both were
BothCalls == prev_call # <<>> /\ last_call # <<>>

\* in the last component of p, a character other than a dot precedes the last dot
HasStem(p) ==
    \E k \in (RFind(p, "/") + 1)..(RFind(p, ".") - 1) : p[k] # "."

\* C8 as stated: the same path twice, or two paths with the same text from the
\* last dot on, give the same outcome.
C8_SameTailSameOutcome ==
    BothCalls =>
        LET p == prev_call[1].filepath
            q == last_call[1].filepath
        IN  (p = q \/ SameDottedTail(p, q)) =>
                prev_call[1].outcome = last_call[1].outcome

\* the same, for two paths in each of which the last dot has a stem before it
SameOutcomeWithStem ==
    BothCalls =>
        LET p == prev_call[1].filepath
            q == last_call[1].filepath
        IN  (p = q \/ (SameDottedTail(p, q) /\ HasStem(p) /\ HasStem(q))) =>
                prev_call[1].outcome = last_call[1].outcome

\* C8, amended: a call leaves the registry unchanged; the same path twice gives
\* the same outcome; two paths that differ only before the final extension give
\* the same outcome when in each the extension's dot follows a character of
\* the last component that is not a dot.
C8_PureLookup ==
    [][registry' = registry /\ SameOutcomeWithStem']_vars

\* C8's case: two different paths with the same extension resolved to a driver
C8_Witness ==
    /\ BothCalls
    /\ prev_call[1].filepath # last_call[1].filepath
    /\ SameDottedTail(prev_call[1].filepath, last_call[1].filepath)
    /\ HasStem(prev_call[1].filepath)
    /\ HasStem(last_call[1].filepath)
    /\ last_call[1].outcome.kind = "return"
    /\ last_call[1].outcome.idx > 0

(***************************************************************************)
(* Claims about create_centerlines (checked under Spec).                   *)
(***************************************************************************)
\* the Features whose conversion succeeded, in source order
RECURSIVE Converted(_)
Converted(n) ==
    IF n = 0 THEN <<>>
    ELSE IF outcomes[n].kind = "ok"
         THEN Append(Converted(n - 1), n)
         ELSE Converted(n - 1)

Succeeded == Converted(Len(outcomes))

\* the errors that skip a Feature
SkipErrors == {"InvalidInputTypeError", "TooFewRidgesError"}

\* the Features the algorithm failed on with one of them, in source order
RECURSIVE SkippedUpTo(_)
SkippedUpTo(n) ==
    IF n = 0 THEN <<>>
    ELSE IF outcomes[n].kind \in SkipErrors
         THEN Append(SkippedUpTo(n - 1), n)
         ELSE SkippedUpTo(n - 1)

Skipped == SkippedUpTo(Len(outcomes))

Written == destination_file.records

\* the Centerline Result of Feature i, and the Feature's own properties
ResultOf(i) == outcomes[i].obj[1]
PropertiesOf(i) == src.features[i].properties

\* C1: the key set of the properties of the record written for a converted
\* Feature is exactly the intersection of the Centerline Result's attribute
\* keys and the Feature's property keys.
C1_PropertiesAreIntersection ==
    \A j \in 1..Len(Written) :
        j <= Len(Succeeded) =>
            DOMAIN Written[j].properties =
                DOMAIN ResultOf(Succeeded[j]).attrs
                    \cap DOMAIN PropertiesOf(Succeeded[j])

\* C1's case: a record is written whose Centerline Result has a key of its own
C1_Witness ==
    /\ Len(Written) >= 1
    /\ Len(Succeeded) >= 1
    /\ \E k \in DOMAIN ResultOf(Succeeded[1]).attrs :
          /\ k \notin DOMAIN PropertiesOf(Succeeded[1])
          /\ k \notin DOMAIN Written[1].properties
    /\ DOMAIN Written[1].properties # {}

\* the record a converted Feature is to give
OutputOf(i) ==
    [geometry   |-> ResultOf(i).geometry,
     properties |-> [k \in DOMAIN ResultOf(i).attrs \cap DOMAIN PropertiesOf(i)
                        |-> ResultOf(i).attrs[k]]]

\* C2: the destination's records are the outputs of the converted Features, in
\* the order of those Features in the source, one each: none is duplicated,
\* moved, or written for a Feature that was skipped. (The last converted
\* Feature's record is missing only between its conversion and its write, or
\* when that write failed.)
C2_OrderPreserved ==
    /\ Len(Written) <= Len(Succeeded)
    /\ Len(Succeeded) <= Len(Written) + 1
    /\ \A j \in 1..Len(Written) : Written[j] = OutputOf(Succeeded[j])
    /\ pc \in {"iterate", "convert", "done"} => Len(Written) = Len(Succeeded)

\* C2's case: a run that returned after writing two different records
C2_Witness ==
    /\ pc = "done"
    /\ Len(src.features) = 2
    /\ Len(Written) = 2
    /\ Written[1] # Written[2]

\* what holds in every state about the Features skipped so far
SkipsAccounted ==
    /\ Len(warnings) = Len(Skipped)
    /\ \A j \in 1..Len(warnings) :
          warnings[j] = Exception(outcomes[Skipped[j]].kind, <<>>)
    /\ Len(Written) + Len(Skipped) <= Len(outcomes)
    /\ pc = "done" => Len(outcomes) = Len(src.features)
    /\ (pc = "raised" /\ outcomes # <<>>) => raised.type \notin SkipErrors

\* the step on which the algorithm fails with one of the two errors
SkipStep ==
    (/\ Len(outcomes') = Len(outcomes) + 1
     /\ outcomes'[Len(outcomes')].kind \in SkipErrors)
    => /\ Written' = Written
       /\ warnings' = Append(warnings,
                             Exception(outcomes'[Len(outcomes')].kind, <<>>))
       /\ pc' = "iterate"
       /\ raised' = NoException
       /\ cursor' = cursor
       /\ source_file' = "open"
       /\ destination_file'.state = "open"

\* C3: when the algorithm fails on a Feature with InvalidInputTypeError or
\* TooFewRidgesError, nothing is written for that Feature, exactly one warning
\* is logged for it, and the run goes on to read the next Feature: the failure
\* raises nothing, and a run that returns has read and processed every Feature.
C3_SkipAndContinue == [][SkipStep /\ SkipsAccounted']_vars

\* C3's case: the first Feature was skipped, the second was still converted
\* and written, and the run returned
C3_Witness ==
    /\ pc = "done"
    /\ Len(outcomes) = 2
    /\ outcomes[1].kind \in SkipErrors
    /\ outcomes[2].kind = "ok"
    /\ Len(warnings) = 1
    /\ Len(Written) = 1

\* C4: when no driver matches the destination's extension, the run ends with
\* UnsupportedFormatError carrying the extension, raised to the caller, and
\* the destination was never opened.
C4_UnsupportedFormatError ==
    driver.kind = "raise" =>
        /\ pc = "raised"
        /\ raised.type = "UnsupportedFormatError"
        /\ raised.msg = FileExtension(dst)
        /\ warnings = <<>>
        /\ destination_file = NoFile

\* C5: when the call has ended, by return or by an exception, no handle is open.
C5_HandlesClosed ==
    pc \in {"done", "raised"} =>
        /\ source_file # "open"
        /\ destination_file.state # "open"

\* C5's case: an exception ended the run with both datasets opened
C5_Witness ==
    /\ pc = "raised"
    /\ outcomes # <<>>
    /\ source_file = "closed"
    /\ destination_file.state = "closed"

\* C6: the schema the destination is opened with is the source's schema with
\* the geometry type replaced by MultiLineString: the same fields, with the
\* same names and types, in the same order.
C6_SchemaDerived ==
    destination_file.state # "unopened" =>
        /\ DOMAIN destination_file.schema = DOMAIN src.schema
        /\ destination_file.schema.geometry = "MultiLineString"
        /\ destination_file.schema.properties = src.schema.properties

\* C6's case: a destination opened from a source with two fields
C6_Witness ==
    /\ destination_file.state = "open"
    /\ Len(src.schema.properties) = 2
    /\ src.schema.geometry # "MultiLineString"

\* the Centerline Result of Feature i has every attribute it was given, unchanged
Republishes(i) ==
    \A k \in DOMAIN PropertiesOf(i) :
        /\ k \in DOMAIN ResultOf(i).attrs
        /\ ResultOf(i).attrs[k] = PropertiesOf(i)[k]

\* C9: when the Centerline Result republishes every attribute it was given
\* unchanged, the record's properties are the Feature's properties, whatever
\* else the Result holds; each value written is the Result's value for its key.
C9_AttributesPreserved ==
    \A j \in 1..Len(Written) :
        j <= Len(Succeeded) =>
            LET i == Succeeded[j]
            IN  /\ Republishes(i) => Written[j].properties = PropertiesOf(i)
                /\ \A k \in DOMAIN Written[j].properties :
                      /\ k \in DOMAIN ResultOf(i).attrs
                      /\ Written[j].properties[k] = ResultOf(i).attrs[k]

\* C9's case: two records written, one for a Result that republishes its
\* attributes and one for a Result that replaced a value it was given
C9_Witness ==
    /\ Len(Written) = 2
    /\ Len(Succeeded) = 2
    /\ Republishes(Succeeded[1])
    /\ Written[1].properties = PropertiesOf(Succeeded[1])
    /\ ~Republishes(Succeeded[2])

\* C10: a run in which the source opened, the driver resolved, the destination
\* opened and no I/O failure occurred ends by returning, with every Feature
\* read and processed once.
C10_ReturnsNormally ==
    (/\ pc \in {"done", "raised"}
     /\ destination_file.state # "unopened"
     /\ raised.type # "DriverError")
    => /\ pc = "done"
       /\ cursor = Len(src.features)
       /\ Len(outcomes) = Len(src.features)

\* a step on which something fails: an exception leaves the call, a warning
\* is logged, or a conversion ends otherwise than by returning
FailureStep ==
    \/ raised' # raised
    \/ warnings' # warnings
    \/ pc' = "raised"
    \/ /\ Len(outcomes') = Len(outcomes) + 1
       /\ outcomes'[Len(outcomes')].kind # "ok"

\* the failure skips the Feature in hand: one warning, no write, the loop goes on
SkipOutcome ==
    /\ pc = "convert"
    /\ Len(outcomes') = Len(outcomes) + 1
    /\ outcomes'[Len(outcomes')].kind \in SkipErrors
    /\ warnings' = Append(warnings,
                          Exception(outcomes'[Len(outcomes')].kind, <<>>))
    /\ Written' = Written
    /\ raised' = NoException
    /\ pc' = "iterate"
    /\ cursor' = cursor
    /\ source_file' = "open"
    /\ destination_file'.state = "open"

\* the error of the operation that failed on this step, as that operation gave it
ErrorOfStep ==
    IF pc = "source_open" THEN Exception(driver'.error, FileExtension(dst))
    ELSE IF pc = "convert" THEN Exception(outcomes'[Len(outcomes')].kind, <<>>)
    ELSE Exception("DriverError", <<>>)

\* the failure ends the run: the error reaches the caller as it was raised,
\* nothing is logged or written
AbortOutcome ==
    /\ pc' = "raised"
    /\ raised = NoException
    /\ raised' = ErrorOfStep
    /\ raised'.type # ""
    /\ pc = "convert" => /\ Len(outcomes') = Len(outcomes) + 1
                         /\ outcomes'[Len(outcomes')].kind \notin SkipErrors
    /\ warnings' = warnings
    /\ Written' = Written
    /\ cursor' = cursor

\* what holds in every state about which errors stay in and which get out
ErrorsContained ==
    /\ Len(outcomes) <= cursor
    /\ cursor <= Len(outcomes) + 1
    /\ cursor <= Len(src.features)
    /\ \A j \in 1..Len(warnings) : warnings[j].type \in SkipErrors
    /\ Len(warnings) = Len(Skipped)
    /\ driver.kind = "raise" => pc = "raised" /\ raised = ExceptionOf(driver)
    /\ raised # NoException <=> pc = "raised"

\* C11: every failure either skips the Feature in hand (a warning, nothing
\* written, the next Feature is read next) or ends the run with the error
\* given to the caller as it was raised, never both; the cursor only moves
\* forward by one, so no Feature is processed twice; InvalidInputTypeError and
\* TooFewRidgesError from the algorithm never leave the per-Feature step, while
\* the errors of opening the source, resolving the driver, opening the
\* destination and writing always do; nothing follows an abort.
C11_SkipOrAbort ==
    [][/\ FailureStep => (SkipOutcome /\ pc' # "raised") \/ (AbortOutcome /\ ~SkipOutcome)
       /\ cursor' = cursor \/ (cursor' = cursor + 1 /\ Len(outcomes) = cursor)
       /\ pc # "raised"
       /\ ErrorsContained']_vars

\* C11's case: one run with both outcomes, a Feature skipped and then a write
\* that failed
C11_Witness ==
    /\ pc = "raised"
    /\ raised.type = "DriverError"
    /\ Len(warnings) = 1
    /\ Len(outcomes) = 2
    /\ outcomes[2].kind = "ok"
    /\ Written = <<>>

\* the resolver is called on this step
ResolverCalled == last_call' # last_call \/ prev_call' # prev_call

\* C12: the resolver is called at most once in a run, with the destination
\* path, when the source is open and the destination is not yet; it is not
\* called while Features are iterated, and the destination is opened, and
\* records written, only after it returned a driver.
C12_ResolvedOnce ==
    [][/\ ResolverCalled =>
              /\ last_call = <<>>
              /\ pc = "source_open"
              /\ source_file = "open"
              /\ destination_file = NoFile
              /\ last_call' = <<[filepath |-> dst, outcome |-> driver']>>
       /\ prev_call' = <<>>
       /\ destination_file'.state # "unopened" =>
              /\ last_call' # <<>>
              /\ last_call'[1].outcome.kind = "return"
              /\ driver' = last_call'[1].outcome
       /\ Written' # <<>> => destination_file'.state # "unopened"]_vars

\* C12's case: two records written after the one call
C12_Witness ==
    /\ Len(Written) = 2
    /\ last_call # <<>>
    /\ prev_call = <<>>
    /\ last_call[1].outcome.kind = "return"

\* the records and warnings the run has produced
Contributions == Len(Written) + Len(warnings)

\* what Feature i has contributed: its record, when it was converted and the
\* record is among those written; its warning, when it was skipped
WroteRecord(i) ==
    /\ outcomes[i].kind = "ok"
    /\ \E j \in 1..Len(Written) : j <= Len(Succeeded) /\ Succeeded[j] = i
LoggedWarning(i) ==
    /\ outcomes[i].kind \in SkipErrors
    /\ \E j \in 1..Len(warnings) : j <= Len(Skipped) /\ Skipped[j] = i

\* the Features fully processed: all those read, but the one in hand
FullyProcessed ==
    IF pc \in {"convert", "write"} THEN cursor - 1
    ELSE IF pc = "raised" /\ Contributions < cursor THEN cursor - 1
    ELSE cursor

\* C13: in every state, records written plus warnings logged is the number of
\* Features fully processed; the Features read exceed it by one while a
\* Feature is in hand (or was when the run aborted) and by none otherwise;
\* each Feature fully processed gave one record or one warning, never both
\* and never neither.
C13_LockStep ==
    /\ Contributions = FullyProcessed
    /\ FullyProcessed <= cursor
    /\ cursor <= FullyProcessed + 1
    /\ pc \in {"start", "source_open", "resolved", "iterate", "done"} =>
           FullyProcessed = cursor
    /\ Len(Written) <= Len(Succeeded)
    /\ Len(warnings) <= Len(Skipped)
    /\ \A i \in 1..FullyProcessed :
          /\ i <= Len(outcomes)
          /\ WroteRecord(i) \/ LoggedWarning(i)
          /\ ~(WroteRecord(i) /\ LoggedWarning(i))

\* C13's case: a run that returned after one record and then one warning
C13_Witness ==
    /\ pc = "done"
    /\ cursor = 2
    /\ Len(Written) = 1
    /\ Len(warnings) = 1
    /\ outcomes[1].kind = "ok"
    /\ outcomes[2].kind \in SkipErrors

\* C14: the destination is opened with the source's coordinate reference
\* system and encoding as they are, with the driver the resolver returned
\* and with the derived schema; no step changes the Source Dataset.
C14_DestinationFromSource ==
    [][/\ src' = src
       /\ destination_file'.state # "unopened" =>
              /\ destination_file'.crs = src.crs
              /\ destination_file'.encoding = src.encoding
              /\ destination_file'.schema = schema'
              /\ driver'.kind = "return"
              /\ destination_file'.driver = registry[driver'.idx + 1].name]_vars

\* C14's case: a destination opened from a source whose crs and encoding are
\* not the usual ones, with the second driver of the registry
C14_Witness ==
    /\ destination_file.state = "open"
    /\ destination_file.crs = "EPSG:3857"
    /\ destination_file.encoding = "latin-1"
    /\ destination_file.driver = "GPKG"
    /\ Len(Written) >= 1

\* the Feature in hand has a property named as the algorithm's own parameter
HasParameterName(i) == "interpolation_dist" \in DOMAIN PropertiesOf(i)

\* C15: for a Feature with a property named interpolation_dist, calling the
\* algorithm with the properties expanded as keywords raises no error for
\* the repeated name, and the run is not aborted by it.
C15_SilentCollision ==
    \A i \in 1..Len(outcomes) :
        HasParameterName(i) =>
            /\ outcomes[i].kind # "TypeError"
            /\ raised.type # "TypeError"

\* the call made with path p found no extension in it
NoExtension(p) == FileExtension(p) = <<>>

\* C16: for a path with no extension and a registry that is not empty, the
\* resolver does not fail: it returns the driver at index 0, whatever that
\* driver's metadata.
C16_EmptyExtensionFirstDriver ==
    \A k \in DOMAIN last_call :
        (NoExtension(last_call[k].filepath) /\ registry # <<>>) =>
            /\ last_call[k].outcome.kind = "return"
            /\ last_call[k].outcome.idx = 0
            /\ last_call[k].outcome.driver = registry[1].name

\* C16's case: a path without a dot resolved to a first driver whose
\* canonical extension is set and is not empty
C16_Witness ==
    /\ last_call # <<>>
    /\ last_call[1].filepath # <<>>
    /\ RFind(last_call[1].filepath, ".") = 0
    /\ Len(registry) = 2
    /\ registry[1].DMD_EXTENSION # <<>>
    /\ registry[1].DMD_EXTENSION[1] # <<>>
    /\ last_call[1].outcome.kind = "return"
    /\ last_call[1].outcome.idx = 0

\* the outputs of the converted Features among the first n, in source order
RECURSIVE OutputsUpTo(_)
OutputsUpTo(n) ==
    IF n = 0 THEN <<>>
    ELSE IF outcomes[n].kind = "ok"
         THEN Append(OutputsUpTo(n - 1), OutputOf(n))
         ELSE OutputsUpTo(n - 1)

\* the run aborted with Feature number cursor in hand
AbortedInFeature ==
    /\ pc = "raised"
    /\ cursor >= 1
    /\ Len(outcomes) = cursor
    /\ \/ outcomes[cursor].kind \notin SkipErrors \cup {"ok"}
       \/ outcomes[cursor].kind = "ok" /\ Len(Written) < Len(Succeeded)

\* C17: when a fatal error aborts the run with Feature i in hand, the records
\* written are the outputs of the converted Features among 1..i-1, in source
\* order; the abort itself removes or rewrites none of them, and nothing is
\* read after it.
C17_AbortKeepsWritten ==
    [][/\ AbortedInFeature' => /\ Written' = OutputsUpTo(cursor - 1)
                               /\ Written' = Written
                               /\ cursor' = cursor
                               /\ pc \in {"convert", "write"}
       /\ pc = "raised" => cursor' = cursor /\ Written' = Written]_vars

\* C17's case: the write of the second Feature failed after the first
\* Feature's record was written
C17_Witness ==
    /\ AbortedInFeature
    /\ cursor = 2
    /\ raised.type = "DriverError"
    /\ outcomes[1].kind = "ok"
    /\ Written = <<OutputOf(1)>>
=============================================================================
